---- MODULE Spec2Model ----
(***************************************************************************)
(* Blueprint Builder (src/main.py): validate -> patch -> re-validate ->    *)
(* certify -> ledger append.                                               *)
(*                                                                         *)
(* Strings are sequences of one-character strings, so that str.isupper,    *)
(* str.upper, the magnitude regex, strptime and isoformat are computed     *)
(* character by character.  JSON values are tagged records:                *)
(*   [t |-> "absent"]              the key is not in the mapping           *)
(*   [t |-> "null"]                JSON null / Python None                 *)
(*   [t |-> "str",  s |-> chars]   a string                                *)
(*   [t |-> "num",  m |-> i, e |-> k]   the number i / 10^k, normalised    *)
(*   [t |-> "list", v |-> values]  a JSON array                            *)
(***************************************************************************)
EXTENDS Integers, Sequences, FiniteSets, TLC

VARIABLES
    pc,            \* position of the build command (src/main.py:118-186)
    raw_data,      \* the mapping loaded from the input file (line 131)
    fix,           \* the --fix option (line 120)
    output,        \* whether --output was given (line 121)
    patched_data,  \* PatchEngine.run's result (line 154), NoData before it ran
    valid_asset,   \* the validated FinancialAsset (lines 137, 140, 157)
    violations,    \* e.errors() of the validation pass that failed last
    reported,      \* the violations printed to the console (lines 145-146)
    n_validate,    \* FinancialAsset(...) constructions in this invocation
    n_patch,       \* PatchEngine.run calls in this invocation
    exit_code,     \* the process's exit status, -1 while running
    ledger_file,   \* ledger.json: [exists, content], content a token sequence
    output_file,   \* the file at the --output path
    store0,        \* the kind of store the run started from
    appended,      \* the records append_to_ledger was given and returned for
    ledger_before, \* ledger.json as it was when this invocation started
    builds,        \* invocations started so far
    allowed_currencies, \* the policy source's current allowed-currency set
    px,            \* SpecPatch: the raw mapping under test
    pr,            \* SpecPatch: PatchEngine.run's results on px
    ph,            \* SpecPatch: one heuristic's result on px
    writer,        \* SpecConc: each writer's position in append_to_ledger
    overlap,       \* SpecConc: some call started while another was running
    input_items,   \* SpecDet: the input file's pairs in the order it holds them
    reference      \* SpecDet: an earlier invocation's input, flag and outcome

vars == <<pc, raw_data, fix, output, patched_data, valid_asset, violations,
          reported, n_validate, n_patch, exit_code, ledger_file, output_file,
          store0, appended, ledger_before, builds, allowed_currencies, px, pr, ph,
          writer, overlap, input_items, reference>>

buildVars == <<pc, raw_data, fix, output, patched_data, valid_asset, violations,
               reported, n_validate, n_patch, exit_code, ledger_file,
               output_file, store0, appended,
                   ledger_before, builds>>

----------------------------------------------------------------------------
(* Characters and strings *)

DigitSeq == <<"0", "1", "2", "3", "4", "5", "6", "7", "8", "9">>
LowerSeq == <<"a", "b", "c", "d", "e", "f", "g", "h", "i", "j", "k", "l", "m",
              "n", "o", "p", "q", "r", "s", "t", "u", "v", "w", "x", "y", "z">>
UpperSeq == <<"A", "B", "C", "D", "E", "F", "G", "H", "I", "J", "K", "L", "M",
              "N", "O", "P", "Q", "R", "S", "T", "U", "V", "W", "X", "Y", "Z">>

Range(f) == {f[i] : i \in DOMAIN f}
Digits == Range(DigitSeq)
LowerChars == Range(LowerSeq)
UpperChars == Range(UpperSeq)

IndexIn(seq, c) == CHOOSE i \in DOMAIN seq : seq[i] = c
DigitVal(c) == IndexIn(DigitSeq, c) - 1
DigitChar(n) == DigitSeq[n + 1]

ToUpper(c) == IF c \in LowerChars THEN UpperSeq[IndexIn(LowerSeq, c)] ELSE c
ToLower(c) == IF c \in UpperChars THEN LowerSeq[IndexIn(UpperSeq, c)] ELSE c

\* str.upper() / str.lower()
str_upper(s) == [i \in 1..Len(s) |-> ToUpper(s[i])]
str_lower(s) == [i \in 1..Len(s) |-> ToLower(s[i])]

\* str.isupper(): at least one cased character and no lowercase one
str_isupper(s) ==
    /\ \E i \in 1..Len(s) : s[i] \in UpperChars
    /\ \A i \in 1..Len(s) : s[i] \notin LowerChars

Contains(s, c) == \E i \in 1..Len(s) : s[i] = c
AllDigits(s) == Len(s) > 0 /\ \A i \in 1..Len(s) : s[i] \in Digits
Front(s) == SubSeq(s, 1, Len(s) - 1)
Last(s) == s[Len(s)]
\* val.lower().endswith(c)
EndsWith(s, c) == Len(s) > 0 /\ Last(s) = c

RECURSIVE NatOf(_)
NatOf(s) == IF Len(s) = 0 THEN 0 ELSE 10 * NatOf(Front(s)) + DigitVal(Last(s))

\* the parts of s between occurrences of c (str.split)
RECURSIVE Split(_, _)
Split(s, c) ==
    IF ~Contains(s, c) THEN <<s>>
    ELSE LET i == CHOOSE j \in 1..Len(s) :
                      s[j] = c /\ \A k \in 1..(j - 1) : s[k] # c
         IN <<SubSeq(s, 1, i - 1)>> \o Split(SubSeq(s, i + 1, Len(s)), c)

\* n as exactly w decimal digits ("%0wd"); n < 10^w
RECURSIVE Pad(_, _)
Pad(n, w) == IF w = 0 THEN <<>> ELSE Pad(n \div 10, w - 1) \o <<DigitChar(n % 10)>>

----------------------------------------------------------------------------
(* JSON values *)

Absent == [t |-> "absent"]
Null == [t |-> "null"]
Str(s) == [t |-> "str", s |-> s]
List(v) == [t |-> "list", v |-> v]

RECURSIVE Pow10(_)
Pow10(k) == IF k = 0 THEN 1 ELSE 10 * Pow10(k - 1)

\* the number m / 10^e, with trailing zeros of the fraction removed
RECURSIVE Num(_, _)
Num(m, e) == IF e > 0 /\ m % 10 = 0 THEN Num(m \div 10, e - 1)
             ELSE [t |-> "num", m |-> m, e |-> e]

IsStr(v) == v.t = "str"
IsNum(v) == v.t = "num"
Positive(v) == v.m > 0

\* digits[.digits]: the strings \d+(\.\d+)? matches
IsDecimal(s) ==
    LET p == Split(s, ".")
    IN \/ Len(p) = 1 /\ AllDigits(p[1])
       \/ Len(p) = 2 /\ AllDigits(p[1]) /\ AllDigits(p[2])

DecimalValue(s) ==
    LET p == Split(s, ".")
    IN IF Len(p) = 1 THEN Num(NatOf(p[1]), 0)
       ELSE Num(NatOf(p[1]) * Pow10(Len(p[2])) + NatOf(p[2]), Len(p[2]))

Times(v, k) == Num(v.m * k, v.e)

----------------------------------------------------------------------------
(* Raw mappings: a function from Keys to values, Absent for a missing key *)

Fields == <<"asset_id", "asset_type", "issuer_name", "price", "currency",
            "maturity_date", "required_docs">>
Keys == Range(Fields) \cup {"maturity", "face_value", "isin", "issuer"}

\* "date" in key or key == "maturity" (line 51), over Keys
IsDateKey(key) == key \in {"maturity_date", "maturity"}

----------------------------------------------------------------------------
(* PatchEngine (src/main.py:41-89) *)

IsLeap(y) == (y % 4 = 0 /\ y % 100 # 0) \/ y % 400 = 0
DaysIn(y, m) == IF m = 2 THEN (IF IsLeap(y) THEN 29 ELSE 28)
                ELSE IF m \in {4, 6, 9, 11} THEN 30 ELSE 31

\* datetime.strptime(val, "%Y/%m/%d"): %Y is \d\d\d\d, %m is 1[0-2]|0[1-9]|[1-9],
\* %d is 3[01]|[12]\d|0[1-9]|[1-9]| [1-9]; the whole string must be consumed,
\* and datetime(y, m, d) rejects year 0 and a day the month does not have.
strptime(val) ==
    LET p == Split(val, "/")
        yOk == Len(p[1]) = 4 /\ AllDigits(p[1])
        mOk == AllDigits(p[2]) /\ Len(p[2]) <= 2 /\ NatOf(p[2]) \in 1..12
        dSp == Len(p[3]) = 2 /\ p[3][1] = " " /\ p[3][2] \in Digits \ {"0"}
        dOk == dSp \/ (AllDigits(p[3]) /\ Len(p[3]) <= 2 /\ NatOf(p[3]) \in 1..31)
        y == NatOf(p[1])
        m == NatOf(p[2])
        d == IF dSp THEN DigitVal(p[3][2]) ELSE NatOf(p[3])
    IN IF Len(p) = 3 /\ yOk /\ mOk /\ dOk /\ y >= 1 /\ d <= DaysIn(y, m)
       THEN [ok |-> TRUE, y |-> y, m |-> m, d |-> d]
       ELSE [ok |-> FALSE, y |-> 0, m |-> 0, d |-> 0]

\* mutant: the date is written back with slashes, day and month exchanged
isoformat_ydm(dt) ==
    Pad(dt.y, 4) \o <<"/">> \o Pad(dt.d, 2) \o <<"/">> \o Pad(dt.m, 2)

\* datetime.isoformat() of a midnight datetime
isoformat(dt) ==
    Pad(dt.y, 4) \o <<"-">> \o Pad(dt.m, 2) \o <<"-">> \o Pad(dt.d, 2)
    \o <<"T", "0", "0", ":", "0", "0", ":", "0", "0">>

DatePatched(val) ==
    IF IsStr(val) /\ Contains(val.s, "/") /\ strptime(val.s).ok
    THEN Str(isoformat(strptime(val.s))) ELSE val

fix_dates(data) ==
    [key \in Keys |-> IF IsDateKey(key) THEN DatePatched(data[key]) ELSE data[key]]

\* re.match(r"^\d+(\.\d+)?[kKmM]$", val): "$" also matches before a final newline
MagnitudeCore(s) ==
    Len(s) >= 2 /\ Last(s) \in {"k", "K", "m", "M"} /\ IsDecimal(Front(s))
MatchesMagnitude(s) ==
    \/ MagnitudeCore(s)
    \/ Len(s) > 0 /\ Last(s) = "\n" /\ MagnitudeCore(Front(s))

\* float(s) on what val[:-1] can be once the regex matched: digits[.digits]
\* converts, digits[.digits] followed by a suffix letter raises ValueError
FloatRaises(s) == ~IsDecimal(s)

\* mutant: the millions branch is lost, every suffix multiplies by 1000
Multiplier_thousands(val) == 1000

Multiplier(val) == IF EndsWith(str_lower(val), "k") THEN 1000 ELSE 1000000

NumberRaises(val) ==
    IsStr(val) /\ MatchesMagnitude(val.s) /\ FloatRaises(Front(val.s))

NumberPatched(val) ==
    IF IsStr(val) /\ MatchesMagnitude(val.s)
    THEN Times(DecimalValue(Front(val.s)), Multiplier(val.s)) ELSE val

\* the result of a call: a mapping, or the exception that left it
Returned(data) == [ok |-> TRUE, data |-> data]
Raised(exc) == [ok |-> FALSE, exc |-> exc]

fix_numbers(data) ==
    IF \E key \in Keys : NumberRaises(data[key]) THEN Raised("ValueError")
    ELSE Returned([key \in Keys |-> NumberPatched(data[key])])

fix_uppercase(data) ==
    IF data["asset_id"] # Absent /\ IsStr(data["asset_id"])
       /\ ~str_isupper(data["asset_id"].s)
    THEN [data EXCEPT !["asset_id"] = Str(str_upper(data["asset_id"].s))]
    ELSE data

PatchEngine_run(data) ==
    LET n == fix_numbers(fix_dates(data))
    IN IF n.ok THEN Returned(fix_uppercase(n.data)) ELSE n

\* run applied to the outcome of a previous call: an exception propagates
RunAgain(r) == IF r.ok THEN PatchEngine_run(r.data) ELSE r

----------------------------------------------------------------------------
(* FinancialAsset (src/main.py:24-37), validated by pydantic: every field is   *)
(* checked, the errors of all fields are collected in declaration order, and *)
(* within a field the first failing check is the one reported.               *)

MinIdLen == 5
MinIssuerLen == 5
CurrencyLen == 3

AssetTypes == { <<"S", "t", "o", "c", "k">>, <<"B", "o", "n", "d">>,
                <<"D", "e", "r", "i", "v", "a", "t", "i", "v", "e">>, <<"F", "X">> }

\* mutant: the validator accepts any casing
enforce_uppercase_off(v) == TRUE

\* the field_validator of asset_id (lines 33-37)
enforce_uppercase(v) == str_isupper(v)

\* max_length of currency (line 29)
CurrencyTooLong(s) == Len(s) > CurrencyLen

\* a string pydantic converts to float, among [-]digits[.digits] and the rest
\* of the model's strings (no exponent, inf or nan forms are among them)
FloatString(s) ==
    \/ IsDecimal(s)
    \/ Len(s) >= 2 /\ s[1] = "-" /\ IsDecimal(Tail(s))
FloatOf(s) ==
    IF s[1] = "-" THEN Times(DecimalValue(Tail(s)), -1) ELSE DecimalValue(s)

TwoDigits(s, i, max) ==
    s[i] \in Digits /\ s[i + 1] \in Digits /\ NatOf(SubSeq(s, i, i + 1)) <= max

\* YYYY-MM-DD, a calendar date
IsoDate(s) ==
    /\ Len(s) = 10 /\ AllDigits(SubSeq(s, 1, 4)) /\ s[5] = "-" /\ s[8] = "-"
    /\ TwoDigits(s, 6, 12) /\ TwoDigits(s, 9, 31)
    /\ NatOf(SubSeq(s, 1, 4)) >= 1 /\ NatOf(SubSeq(s, 6, 7)) >= 1
    /\ NatOf(SubSeq(s, 9, 10)) >= 1
    /\ NatOf(SubSeq(s, 9, 10)) <= DaysIn(NatOf(SubSeq(s, 1, 4)), NatOf(SubSeq(s, 6, 7)))

\* YYYY-MM-DDTHH:MM:SS
IsoDateTime(s) ==
    /\ Len(s) = 19 /\ IsoDate(SubSeq(s, 1, 10)) /\ s[11] = "T"
    /\ TwoDigits(s, 12, 23) /\ s[14] = ":" /\ TwoDigits(s, 15, 59)
    /\ s[17] = ":" /\ TwoDigits(s, 18, 59)

\* a value Optional[datetime] accepts: None, a number or digit string (a unix
\* timestamp), an ISO date or date-time string
DateTimeOk(v) ==
    \/ v.t \in {"absent", "null", "num"}
    \/ IsStr(v) /\ (IsoDateTime(v.s) \/ IsoDate(v.s) \/ AllDigits(v.s))

\* the field of model_dump(mode='json'): the ISO string of the datetime; the
\* instant of a unix timestamp is kept symbolic
DateTimeDump(v) ==
    IF v.t \in {"absent", "null"} THEN Null
    ELSE IF IsNum(v) THEN [t |-> "instant", at |-> v]
    ELSE IF AllDigits(v.s) THEN [t |-> "instant", at |-> DecimalValue(v.s)]
    ELSE IF IsoDate(v.s)
         THEN Str(v.s \o <<"T", "0", "0", ":", "0", "0", ":", "0", "0">>)
    ELSE v

Err(field, type) == <<[field |-> field, type |-> type]>>

AssetIdErrors(v) ==
    IF v = Absent THEN Err("asset_id", "missing")
    ELSE IF ~IsStr(v) THEN Err("asset_id", "string_type")
    ELSE IF Len(v.s) < MinIdLen THEN Err("asset_id", "string_too_short")
    ELSE IF ~enforce_uppercase(v.s) THEN Err("asset_id", "value_error")
    ELSE <<>>

AssetTypeErrors(v) ==
    IF v = Absent THEN Err("asset_type", "missing")
    ELSE IF ~IsStr(v) THEN Err("asset_type", "string_type")
    ELSE IF v.s \notin AssetTypes THEN Err("asset_type", "string_pattern_mismatch")
    ELSE <<>>

IssuerErrors(v) ==
    IF v = Absent THEN Err("issuer_name", "missing")
    ELSE IF ~IsStr(v) THEN Err("issuer_name", "string_type")
    ELSE IF Len(v.s) < MinIssuerLen THEN Err("issuer_name", "string_too_short")
    ELSE <<>>

PriceValue(v) == IF IsNum(v) THEN v ELSE FloatOf(v.s)

PriceErrors(v) ==
    IF v = Absent THEN Err("price", "missing")
    ELSE IF IsStr(v) /\ ~FloatString(v.s) THEN Err("price", "float_parsing")
    ELSE IF ~IsStr(v) /\ ~IsNum(v) THEN Err("price", "float_type")
    ELSE IF ~Positive(PriceValue(v)) THEN Err("price", "greater_than")
    ELSE <<>>

\* mutant: the currency must also be in the policy's allowed set
CurrencyErrors_policy(v) ==
    IF v = Absent THEN <<>>
    ELSE IF ~IsStr(v) THEN Err("currency", "string_type")
    ELSE IF Len(v.s) < CurrencyLen THEN Err("currency", "string_too_short")
    ELSE IF CurrencyTooLong(v.s) THEN Err("currency", "string_too_long")
    ELSE IF v.s \notin allowed_currencies THEN Err("currency", "value_error")
    ELSE <<>>

CurrencyErrors(v) ==
    IF v = Absent THEN <<>>
    ELSE IF ~IsStr(v) THEN Err("currency", "string_type")
    ELSE IF Len(v.s) < CurrencyLen THEN Err("currency", "string_too_short")
    ELSE IF CurrencyTooLong(v.s) THEN Err("currency", "string_too_long")
    ELSE <<>>

MaturityErrors(v) ==
    IF DateTimeOk(v) THEN <<>>
    ELSE IF IsStr(v) THEN Err("maturity_date", "datetime_from_date_parsing")
    ELSE Err("maturity_date", "datetime_type")

RECURSIVE ItemErrors(_)
ItemErrors(l) ==
    IF Len(l) = 0 THEN <<>>
    ELSE (IF IsStr(Head(l)) THEN <<>> ELSE Err("required_docs", "string_type"))
         \o ItemErrors(Tail(l))

DocsErrors(v) ==
    IF v = Absent THEN <<>>
    ELSE IF v.t # "list" THEN Err("required_docs", "list_type")
    ELSE ItemErrors(v.v)

\* ValidationError.errors() of FinancialAsset(**data); keys that are not
\* fields are ignored
Errors(data) ==
    AssetIdErrors(data["asset_id"]) \o AssetTypeErrors(data["asset_type"])
    \o IssuerErrors(data["issuer_name"]) \o PriceErrors(data["price"])
    \o CurrencyErrors(data["currency"]) \o MaturityErrors(data["maturity_date"])
    \o DocsErrors(data["required_docs"])

USD == Str(<<"U", "S", "D">>)

\* valid_asset.model_dump(mode='json') of the asset FinancialAsset(**data) builds
model_dump(data) ==
    [f \in Range(Fields) |->
        CASE f = "price" -> PriceValue(data[f])
          [] f = "currency" -> (IF data[f] = Absent THEN USD ELSE data[f])
          [] f = "maturity_date" -> DateTimeDump(data[f])
          [] f = "required_docs" -> (IF data[f] = Absent THEN List(<<>>) ELSE data[f])
          [] OTHER -> data[f]]

\* FinancialAsset(**data): the asset, or the ValidationError
FinancialAsset(data) ==
    IF Errors(data) = <<>> THEN [ok |-> TRUE, dump |-> model_dump(data)]
    ELSE [ok |-> FALSE, errors |-> Errors(data)]

----------------------------------------------------------------------------
(* generate_trace_id (src/main.py:93-96) *)

SortedFields == <<"asset_id", "asset_type", "currency", "issuer_name",
                  "maturity_date", "price", "required_docs">>

\* json.dumps(data, sort_keys=True): the pairs in key order
canonical_json(data) == [i \in 1..Len(SortedFields) |->
                            <<SortedFields[i], data[SortedFields[i]]>>]

\* SHA-256 as a collision-free digest of its input
sha256(bytes) == [digest_of |-> bytes]

generate_trace_id(data) == sha256(canonical_json(data))

----------------------------------------------------------------------------
(* The ledger file (src/main.py:98-113).  Its content is a sequence of        *)
(* tokens: brackets, commas, whitespace, serialized objects, and bytes that   *)
(* are no JSON.                                                               *)

LB == [k |-> "["]
RB == [k |-> "]"]
COMMA == [k |-> ","]
WS == [k |-> "ws"]
JUNK == [k |-> "junk"]
Obj(r) == [k |-> "obj", r |-> r]

RECURSIVE Items(_)
Items(l) ==
    IF Len(l) = 0 THEN <<>>
    ELSE <<WS, Obj(Head(l))>> \o (IF Len(l) > 1 THEN <<COMMA>> ELSE <<>>)
         \o Items(Tail(l))

\* json.dump([], f) and json.dump(current_data, f, indent=2)
json_dump(l) == IF Len(l) = 0 THEN <<LB, RB>> ELSE <<LB>> \o Items(l) \o <<WS, RB>>

Strip(c) == SelectSeq(c, LAMBDA tok : tok # WS)

\* Obj (COMMA Obj)*
RECURSIVE IsElements(_)
IsElements(c) ==
    /\ Len(c) >= 1 /\ Head(c).k = "obj"
    /\ \/ Len(c) = 1
       \/ Len(c) >= 3 /\ c[2] = COMMA /\ IsElements(SubSeq(c, 3, Len(c)))

Elements(c) == [i \in 1..((Len(c) + 1) \div 2) |-> c[2 * i - 1].r]

\* json.load(f): the array, the non-array value, or JSONDecodeError
json_load(content) ==
    LET c == Strip(content)
    IN IF c = <<LB, RB>> THEN [kind |-> "array", value |-> <<>>]
       ELSE IF Len(c) >= 3 /\ Head(c) = LB /\ Last(c) = RB
               /\ IsElements(SubSeq(c, 2, Len(c) - 1))
            THEN [kind |-> "array", value |-> Elements(SubSeq(c, 2, Len(c) - 1))]
       ELSE IF Len(c) = 1 /\ c[1].k = "obj" THEN [kind |-> "object", value |-> <<>>]
       ELSE [kind |-> "JSONDecodeError", value |-> <<>>]

\* mutant: the write goes to the end of what was read, without f.seek(0)
Overwrite_noseek(old, new) == old \o new

\* f.seek(0); json.dump(...): the bytes written replace the first bytes of
\* the file, the file is not truncated (lines 112-113)
Overwrite(old, new) == new \o SubSeq(old, Len(new) + 1, Len(old))

\* open(ledger_path, 'w'); json.dump([], f) when the file is missing (101-103)
EnsureExists(file) ==
    IF file.exists THEN file ELSE [exists |-> TRUE, content |-> json_dump(<<>>)]

\* mutant: the array read is dropped, as if every read failed
CurrentData_reset(loaded) == <<>>

\* current_data after the try/except of lines 106-109
CurrentData(loaded) == IF loaded.kind = "array" THEN loaded.value ELSE <<>>

\* append_to_ledger(record): the file afterwards, and whether the call raised
\* (current_data.append on a value that is no list raises AttributeError)
append_to_ledger(record, file) ==
    LET f == EnsureExists(file)
        loaded == json_load(f.content)
    IN IF loaded.kind = "object" THEN [raised |-> TRUE, file |-> f]
       ELSE [raised |-> FALSE,
             file |-> [exists |-> TRUE,
                       content |-> Overwrite(f.content,
                                     json_dump(Append(CurrentData(loaded), record)))]]

\* the entries a reader of the store gets (history, lines 195-196)
ReadAll(file) == json_load(file.content).value
Readable(file) == file.exists /\ json_load(file.content).kind = "array"

----------------------------------------------------------------------------
(* Inputs and initial stores *)

MaxBuilds == 3
JunkLen == 6

EmptyMapping == [key \in Keys |-> Absent]
With(d, key, val) == [d EXCEPT ![key] = val]

S_ABCDE == Str(<<"A", "B", "C", "D", "E">>)
S_abcde == Str(<<"a", "b", "c", "d", "e">>)
S_1234K == Str(<<"1", "2", "3", "4", "K">>)
S_abc == Str(<<"a", "b", "c">>)
S_Bond == Str(<<"B", "o", "n", "d">>)
S_Swap == Str(<<"S", "w", "a", "p">>)
S_Globe == Str(<<"G", "l", "o", "b", "e">>)
S_GBP == Str(<<"G", "B", "P">>)
S_usd_sp == Str(<<"u", "s", "d", " ">>)
S_5M == Str(<<"5", "M">>)
S_5M_nl == Str(<<"5", "M", "\n">>)
S_slash_date == Str(<<"2", "0", "3", "0", "/", "0", "1", "/", "0", "1">>)
S_bad_date == Str(<<"2", "0", "3", "0", "/", "0", "2", "/", "3", "0">>)

Base == [EmptyMapping EXCEPT !["asset_id"] = S_ABCDE, !["asset_type"] = S_Bond,
                             !["issuer_name"] = S_Globe, !["price"] = Num(100, 0),
                             !["currency"] = USD]
GbpInput == With(Base, "currency", S_GBP)
PatchableInput == [Base EXCEPT !["asset_id"] = S_abcde, !["price"] = S_5M,
                               !["maturity_date"] = S_slash_date]
LowercaseInput == With(Base, "asset_id", S_abcde)
NoIssuerInput == With(Base, "issuer_name", Absent)
PatchBreaksInput == [Base EXCEPT !["asset_id"] = S_1234K, !["price"] = S_5M]
NewlineInput == With(Base, "price", S_5M_nl)
ManyErrorsInput == [Base EXCEPT !["asset_id"] = S_abc, !["asset_type"] = S_Swap,
                                !["currency"] = S_usd_sp, !["price"] = Num(0, 0),
                                !["maturity_date"] = S_bad_date]

S_isin == Str(<<"U", "S", "1", "2", "3", "4", "5", "6", "7", "8", "9", "0">>)
S_Global_Corp == Str(<<"G", "l", "o", "b", "a", "l", " ", "C", "o", "r", "p">>)
S_iso_date == Str(<<"2", "0", "3", "0", "-", "0", "1", "-", "0", "1", "T",
                    "0", "0", ":", "0", "0", ":", "0", "0">>)

\* Scenario A of the specification (section 8)
ScenarioAInput == [EmptyMapping EXCEPT !["currency"] = S_usd_sp,
                                       !["face_value"] = S_5M,
                                       !["maturity_date"] = S_slash_date,
                                       !["isin"] = S_isin,
                                       !["issuer"] = S_Global_Corp]

\* the raw mappings an input file may hold (line 131)
RawInputs == {Base, GbpInput, PatchableInput, LowercaseInput, NoIssuerInput,
              ScenarioAInput, PatchBreaksInput,
              NewlineInput, ManyErrorsInput}

\* what ledger.json may hold before the first invocation: nothing, zero bytes,
\* an empty array, bytes that are no JSON, a JSON object, or an empty array
\* padded with whitespace (longer than the array one append writes)
InitialStore(kind) ==
    CASE kind = "missing" -> [exists |-> FALSE, content |-> <<>>]
      [] kind = "empty" -> [exists |-> TRUE, content |-> <<>>]
      [] kind = "array" -> [exists |-> TRUE, content |-> json_dump(<<>>)]
      [] kind = "junk" -> [exists |-> TRUE, content |-> [i \in 1..JunkLen |-> JUNK]]
      [] kind = "object" -> [exists |-> TRUE, content |-> <<Obj(Null)>>]
      [] kind = "padded" ->
            [exists |-> TRUE, content |-> <<LB>> \o [i \in 1..JunkLen |-> WS] \o <<RB>>]
StoreKinds == {"missing", "empty", "array", "junk", "object", "padded"}

\* the policy source (spec section 6): the default policy and a narrowed one
DefaultPolicy == {<<"U", "S", "D">>, <<"E", "U", "R">>, <<"G", "B", "P">>, <<"N", "G", "N">>}
NarrowPolicy == {<<"U", "S", "D">>, <<"E", "U", "R">>, <<"N", "G", "N">>}

----------------------------------------------------------------------------
(* The build command (src/main.py:117-186) *)

NotRun == Raised("not run")
None == [ok |-> FALSE, errors |-> <<>>]
NoFile == [written |-> FALSE]
NoHeuristic == [which |-> "none"]

\* the processes that call append_to_ledger on the same ledger.json
Writers == {1, 2}
NoRecord == [status |-> "none"]
IdleWriter == [pc |-> "idle", record |-> NoRecord, current |-> <<>>,
               calls |-> 0, returned |-> 0]
NoReference == [pc |-> "none"]

Init ==
    /\ pc = "idle"
    /\ raw_data = EmptyMapping
    /\ fix = FALSE
    /\ output = FALSE
    /\ patched_data = NotRun
    /\ valid_asset = None
    /\ violations = <<>>
    /\ reported = <<>>
    /\ n_validate = 0
    /\ n_patch = 0
    /\ exit_code = -1
    /\ store0 \in StoreKinds
    /\ ledger_file = InitialStore(store0)
    /\ output_file = NoFile
    /\ appended = <<>>
    /\ ledger_before = ledger_file
    /\ builds = 0
    /\ allowed_currencies = DefaultPolicy
    /\ px = EmptyMapping
    /\ pr = <<>>
    /\ ph = NoHeuristic
    /\ writer = [i \in Writers |-> IdleWriter]
    /\ overlap = FALSE
    /\ input_items = <<>>
    /\ reference = NoReference

patchVars == <<px, pr, ph>>

concVars == <<writer, overlap>>

detVars == <<input_items, reference>>

extraVars == <<concVars, detVars>>

outside == <<allowed_currencies, patchVars, extraVars>>

\* lines 128-131: the input file is read
Load ==
    /\ pc = "idle" /\ builds < MaxBuilds
    /\ \E r \in RawInputs, f \in BOOLEAN, o \in BOOLEAN :
          /\ raw_data' = r /\ fix' = f /\ output' = o
    /\ pc' = "validating"
    /\ builds' = builds + 1
    /\ ledger_before' = ledger_file
    /\ UNCHANGED <<patched_data, valid_asset, violations, reported, n_validate,
                   n_patch, exit_code, ledger_file, output_file, store0, appended>>
    /\ UNCHANGED outside

\* lines 132-134: the input file cannot be read or parsed
LoadError ==
    /\ pc = "idle" /\ builds < MaxBuilds
    /\ pc' = "exited" /\ exit_code' = 1
    /\ builds' = builds + 1
    /\ ledger_before' = ledger_file
    /\ UNCHANGED <<raw_data, fix, output, patched_data, valid_asset, violations,
                   reported, n_validate, n_patch, ledger_file, output_file,
                   store0, appended>>
    /\ UNCHANGED outside

\* mutant: a failed first attempt without --fix records a FAILED entry
ValidateFirst_ledgers_failure ==
    /\ pc = "validating"
    /\ LET a == FinancialAsset(raw_data)
       IN /\ n_validate' = n_validate + 1
          /\ IF a.ok
             THEN /\ valid_asset' = a
                  /\ pc' = "certifying"
                  /\ UNCHANGED <<violations, reported, exit_code, ledger_file>>
             ELSE /\ violations' = a.errors
                  /\ reported' = a.errors
                  /\ valid_asset' = valid_asset
                  /\ IF ~fix
                     THEN /\ pc' = "rejected" /\ exit_code' = 1
                          /\ ledger_file' = append_to_ledger(
                                [status |-> "FAILED", timestamp |-> builds,
                                 violations |-> a.errors], ledger_file).file
                     ELSE /\ pc' = "patching" /\ exit_code' = exit_code
                          /\ ledger_file' = ledger_file
    /\ UNCHANGED <<raw_data, fix, output, patched_data, n_patch,
                   output_file, store0, appended, ledger_before, builds>>
    /\ UNCHANGED outside

\* mutant: --fix is not consulted, a failed first attempt always patches
ValidateFirst_always_patches ==
    /\ pc = "validating"
    /\ LET a == FinancialAsset(raw_data)
       IN /\ n_validate' = n_validate + 1
          /\ IF a.ok
             THEN /\ valid_asset' = a
                  /\ pc' = "certifying"
                  /\ UNCHANGED <<violations, reported, exit_code>>
             ELSE /\ violations' = a.errors
                  /\ reported' = a.errors
                  /\ valid_asset' = valid_asset
                  /\ pc' = "patching" /\ exit_code' = exit_code
    /\ UNCHANGED <<raw_data, fix, output, patched_data, n_patch, ledger_file,
                   output_file, store0, appended, ledger_before, builds>>
    /\ UNCHANGED outside

\* lines 138-150: the first attempt; on failure the errors are printed, and
\* without --fix the command exits with code 1
ValidateFirst ==
    /\ pc = "validating"
    /\ LET a == FinancialAsset(raw_data)
       IN /\ n_validate' = n_validate + 1
          /\ IF a.ok
             THEN /\ valid_asset' = a
                  /\ pc' = "certifying"
                  /\ UNCHANGED <<violations, reported, exit_code>>
             ELSE /\ violations' = a.errors
                  /\ reported' = a.errors
                  /\ valid_asset' = valid_asset
                  /\ IF ~fix THEN pc' = "rejected" /\ exit_code' = 1
                     ELSE pc' = "patching" /\ exit_code' = exit_code
    /\ UNCHANGED <<raw_data, fix, output, patched_data, n_patch, ledger_file,
                   output_file, store0, appended,
                   ledger_before, builds>>
    /\ UNCHANGED outside

\* lines 153-154: PatchEngine.run on a copy of the raw data; an exception it
\* raises is caught nowhere and ends the command
Patch ==
    /\ pc = "patching"
    /\ LET r == PatchEngine_run(raw_data)
       IN /\ patched_data' = r
          /\ n_patch' = n_patch + 1
          /\ IF r.ok THEN pc' = "revalidating" /\ exit_code' = exit_code
             ELSE pc' = "crashed" /\ exit_code' = 1
    /\ UNCHANGED <<raw_data, fix, output, valid_asset, violations, reported,
                   n_validate, ledger_file, output_file, store0, appended,
                   ledger_before, builds>>
    /\ UNCHANGED outside

\* mutant: a failed second attempt records a FAILED entry before exiting
ValidateSecond_ledgers_failure ==
    /\ pc = "revalidating"
    /\ LET a == FinancialAsset(patched_data.data)
       IN /\ n_validate' = n_validate + 1
          /\ IF a.ok
             THEN /\ valid_asset' = a
                  /\ pc' = "certifying"
                  /\ UNCHANGED <<violations, exit_code, ledger_file>>
             ELSE /\ violations' = a.errors
                  /\ valid_asset' = valid_asset
                  /\ pc' = "rejected" /\ exit_code' = 1
                  /\ ledger_file' = append_to_ledger(
                        [status |-> "FAILED", timestamp |-> builds,
                         violations |-> a.errors], ledger_file).file
    /\ UNCHANGED <<raw_data, fix, output, patched_data, reported, n_patch,
                   output_file, store0, appended, ledger_before, builds>>
    /\ UNCHANGED outside

\* mutant: a failed second attempt patches and validates again
ValidateSecond_retries ==
    /\ pc = "revalidating"
    /\ LET a == FinancialAsset(patched_data.data)
       IN /\ n_validate' = n_validate + 1
          /\ IF a.ok
             THEN /\ valid_asset' = a
                  /\ pc' = "certifying"
                  /\ UNCHANGED <<violations, exit_code>>
             ELSE /\ violations' = a.errors
                  /\ valid_asset' = valid_asset
                  /\ pc' = "patching" /\ exit_code' = exit_code
    /\ UNCHANGED <<raw_data, fix, output, patched_data, reported, n_patch,
                   ledger_file, output_file, store0, appended, ledger_before,
                   builds>>
    /\ UNCHANGED outside

\* lines 156-161: the second attempt, on the patched data; on failure only a
\* fixed message is printed and the command exits with code 1
ValidateSecond ==
    /\ pc = "revalidating"
    /\ LET a == FinancialAsset(patched_data.data)
       IN /\ n_validate' = n_validate + 1
          /\ IF a.ok
             THEN /\ valid_asset' = a
                  /\ pc' = "certifying"
                  /\ UNCHANGED <<violations, exit_code>>
             ELSE /\ violations' = a.errors
                  /\ valid_asset' = valid_asset
                  /\ pc' = "rejected" /\ exit_code' = 1
    /\ UNCHANGED <<raw_data, fix, output, patched_data, reported, n_patch,
                   ledger_file, output_file, store0, appended,
                   ledger_before, builds>>
    /\ UNCHANGED outside

\* lines 167-173; datetime.utcnow() is the invocation's number
\* mutant: the digest covers the timestamp as well as the validated data
certified_record_stamped(final_dict, f, now) ==
    [trace_id |-> sha256(<<canonical_json(final_dict), now>>),
     timestamp |-> now,
     status |-> "VALIDATED",
     method |-> IF f THEN "AUTO_PATCHED" ELSE "DIRECT",
     data |-> final_dict]

certified_record(final_dict, f, now) ==
    [trace_id |-> generate_trace_id(final_dict),
     timestamp |-> now,
     status |-> "VALIDATED",
     method |-> IF f THEN "AUTO_PATCHED" ELSE "DIRECT",
     data |-> final_dict]

\* lines 163-186: hash, assemble the record, append it to the ledger, write
\* the --output file
Certify ==
    /\ pc = "certifying"
    /\ LET rec == certified_record(valid_asset.dump, fix, builds)
           res == append_to_ledger(rec, ledger_file)
       IN /\ ledger_file' = res.file
          /\ IF res.raised
             THEN /\ pc' = "crashed" /\ exit_code' = 1
                  /\ UNCHANGED <<appended, output_file>>
             ELSE /\ pc' = "certified" /\ exit_code' = 0
                  /\ appended' = Append(appended, rec)
                  /\ output_file' = IF output THEN [written |-> TRUE, record |-> rec]
                                    ELSE output_file
    /\ UNCHANGED <<raw_data, fix, output, patched_data, valid_asset, violations,
                   reported, n_validate, n_patch, store0,
                   ledger_before, builds>>
    /\ UNCHANGED outside

Terminal == {"certified", "rejected", "crashed", "exited"}

\* the process ends; the next invocation starts from fresh locals
Exit ==
    /\ pc \in Terminal
    /\ pc' = "idle"
    /\ raw_data' = EmptyMapping /\ fix' = FALSE /\ output' = FALSE
    /\ patched_data' = NotRun /\ valid_asset' = None
    /\ violations' = <<>> /\ reported' = <<>>
    /\ n_validate' = 0 /\ n_patch' = 0 /\ exit_code' = -1
    /\ output_file' = NoFile
    /\ ledger_before' = ledger_file
    /\ UNCHANGED <<ledger_file, store0, appended, builds>>
    /\ UNCHANGED outside

Next == Load \/ LoadError \/ ValidateFirst \/ Patch \/ ValidateSecond
        \/ Certify \/ Exit

Spec == Init /\ [][Next]_vars

----------------------------------------------------------------------------
(* The policy source replaces the allowed-currency set (spec sections 3, 6) *)

UpdatePolicy ==
    /\ pc = "idle"
    /\ allowed_currencies' \in {DefaultPolicy, NarrowPolicy} \ {allowed_currencies}
    /\ UNCHANGED <<buildVars, patchVars, extraVars>>

NextPolicy == Next \/ UpdatePolicy

SpecPolicy == Init /\ [][NextPolicy]_vars

----------------------------------------------------------------------------
(* PatchEngine.run as a function: applied to a raw mapping, then to its own *)
(* result                                                                   *)

MaxRuns == 2

PatchValues ==
    { Absent, Null, Num(100, 0), List(<<>>), S_abcde, S_ABCDE, S_1234K, S_5M,
      S_5M_nl, S_slash_date, S_bad_date,
      Str(<<"1", "2", "3", "4", "5">>),
      Str(<<"a", "B", "1", "/", "c">>),
      Str(<<"1", ".", "5", "k">>),
      Str(<<"5", ".", "k">>),
      Str(<<"k">>),
      Str(<<"2", "0", "3", "0", "/", "0", "2", "/", "0", "1">>),
      Str(<<"2", "0", "3", "0", "/", "1", "/", " ", "1">>) }

PatchInputs ==
    { [EmptyMapping EXCEPT !["asset_id"] = a, !["price"] = b,
                           !["maturity_date"] = c, !["maturity"] = d] :
        a \in PatchValues, b \in PatchValues, c \in PatchValues,
        d \in {Absent, S_slash_date} }

InitPatch ==
    /\ Init
    /\ store0 = "missing"

\* the raw mapping under test is chosen
ChooseInput ==
    /\ px = EmptyMapping /\ pr = <<>>
    /\ px' \in PatchInputs \ {EmptyMapping}
    /\ UNCHANGED <<buildVars, allowed_currencies, pr, ph, extraVars>>

\* PatchEngine.run(px), then PatchEngine.run of what the previous call gave
RunPatch ==
    /\ px # EmptyMapping
    /\ Len(pr) < MaxRuns
    /\ pr' = Append(pr, IF pr = <<>> THEN PatchEngine_run(px) ELSE RunAgain(Last(pr)))
    /\ UNCHANGED <<buildVars, allowed_currencies, px, ph, extraVars>>

Heuristics == {"fix_dates", "fix_numbers", "fix_uppercase"}

\* one heuristic applied to px on its own
Heuristic(which, data) ==
    CASE which = "fix_dates" -> Returned(fix_dates(data))
      [] which = "fix_numbers" -> fix_numbers(data)
      [] which = "fix_uppercase" -> Returned(fix_uppercase(data))

ApplyHeuristic ==
    /\ px # EmptyMapping
    /\ ph = NoHeuristic
    /\ \E which \in Heuristics :
          ph' = [which |-> which, result |-> Heuristic(which, px)]
    /\ UNCHANGED <<buildVars, allowed_currencies, px, pr, extraVars>>

NextPatch == ChooseInput \/ RunPatch \/ ApplyHeuristic

SpecPatch == InitPatch /\ [][NextPatch]_vars

----------------------------------------------------------------------------
(* build on input files that hold the same pairs in different key orders    *)

KeyOrder == Fields \o <<"maturity", "face_value", "isin", "issuer">>
Reverse(s) == [i \in 1..Len(s) |-> s[Len(s) + 1 - i]]
KeyOrders == {KeyOrder, Reverse(KeyOrder)}

\* the file that holds mapping m with its keys in the given order
items_of(m, order) ==
    LET present == SelectSeq(order, LAMBDA key : m[key] # Absent)
    IN [i \in 1..Len(present) |-> <<present[i], m[present[i]]>>]

DetInputs == {Base, PatchableInput, NewlineInput}
InputFiles == {items_of(m, order) : m \in DetInputs, order \in KeyOrders}

\* json.load(f) of an object (line 131): the last pair of a key wins
dict_of(items) ==
    [key \in Keys |->
        LET at == {i \in DOMAIN items : items[i][1] = key}
        IN IF at = {} THEN Absent
           ELSE items[CHOOSE i \in at : \A j \in at : j <= i][2]]

\* the loop of fix_dates over data.items() (lines 50-59)
dates_loop(items) ==
    [i \in DOMAIN items |->
        <<items[i][1],
          IF IsDateKey(items[i][1]) THEN DatePatched(items[i][2]) ELSE items[i][2]>>]

\* the loop of fix_numbers over data.items() from pair i on (lines 65-72): the
\* first pair whose conversion raises ends it
RECURSIVE numbers_loop(_, _)
numbers_loop(items, i) ==
    IF i > Len(items) THEN Returned(items)
    ELSE IF NumberRaises(items[i][2]) THEN Raised("ValueError")
    ELSE numbers_loop([items EXCEPT ![i][2] = NumberPatched(@)], i + 1)

\* fix_uppercase on the pairs (lines 78-81)
uppercase_items(items) ==
    [i \in DOMAIN items |->
        IF items[i][1] = "asset_id" /\ IsStr(items[i][2])
           /\ ~str_isupper(items[i][2].s)
        THEN <<"asset_id", Str(str_upper(items[i][2].s))>> ELSE items[i]]

\* PatchEngine.run on the pairs in the order the file holds them
run_items(items) ==
    LET n == numbers_loop(dates_loop(items), 1)
    IN IF n.ok THEN Returned(dict_of(uppercase_items(n.data))) ELSE n

\* lines 128-131 on one of the input files
LoadItems ==
    /\ pc = "idle" /\ builds < MaxBuilds
    /\ \E items \in InputFiles, f \in BOOLEAN, o \in BOOLEAN :
          /\ input_items' = items /\ raw_data' = dict_of(items)
          /\ fix' = f /\ output' = o
    /\ pc' = "validating"
    /\ builds' = builds + 1
    /\ ledger_before' = ledger_file
    /\ UNCHANGED <<patched_data, valid_asset, violations, reported, n_validate,
                   n_patch, exit_code, ledger_file, output_file, store0, appended>>
    /\ UNCHANGED <<allowed_currencies, patchVars, concVars, reference>>

\* the trace identifier a finished invocation printed (line 177)
NoTrace == sha256(<<>>)
TraceOf == IF pc = "certified" THEN appended[Len(appended)].trace_id ELSE NoTrace

\* a finished invocation is kept to compare later ones with
Record ==
    /\ pc \in Terminal /\ reference = NoReference
    /\ reference' = [pc |-> pc, items |-> input_items, fix |-> fix,
                     trace |-> TraceOf]
    /\ UNCHANGED <<buildVars, allowed_currencies, patchVars, concVars, input_items>>

NextDet == LoadItems \/ ValidateFirst \/ Patch \/ ValidateSecond \/ Certify
           \/ Exit \/ Record

SpecDet == Init /\ [][NextDet]_vars

----------------------------------------------------------------------------
(* append_to_ledger (src/main.py:98-113) run by two processes on the same   *)
(* ledger.json, one file operation per step                                 *)

MaxAppends == 2

\* what the callers keep to themselves
callerVars == <<pc, raw_data, fix, output, patched_data, valid_asset,
                violations, reported, n_validate, n_patch, exit_code,
                output_file, store0, ledger_before>>

\* the record every call appends: a certified asset, stamped with the call
AssetDump == FinancialAsset(Base).dump

\* line 180: a build reaches append_to_ledger(certified_record)
Call(i) ==
    /\ writer[i].pc = "idle" /\ writer[i].calls < MaxAppends
    /\ builds' = builds + 1
    /\ writer' = [writer EXCEPT ![i].pc = "check", ![i].calls = @ + 1,
                      ![i].record = certified_record(AssetDump, FALSE, builds + 1)]
    /\ overlap' = (overlap \/ \E j \in Writers \ {i} : writer[j].pc # "idle")
    /\ UNCHANGED <<callerVars, ledger_file, appended, allowed_currencies,
                   patchVars, detVars>>

\* line 101: if not LEDGER_FILE.exists()
CheckExists(i) ==
    /\ writer[i].pc = "check"
    /\ writer' = [writer EXCEPT
                    ![i].pc = IF ledger_file.exists THEN "open" ELSE "create"]
    /\ UNCHANGED <<callerVars, ledger_file, appended, builds, overlap,
                   allowed_currencies,
                   patchVars, detVars>>

\* lines 102-103: open(LEDGER_FILE, 'w') truncates, json.dump([], f)
Create(i) ==
    /\ writer[i].pc = "create"
    /\ ledger_file' = [exists |-> TRUE, content |-> json_dump(<<>>)]
    /\ writer' = [writer EXCEPT ![i].pc = "open"]
    /\ UNCHANGED <<callerVars, appended, builds, overlap, allowed_currencies,
                   patchVars, detVars>>

\* lines 105-111: open 'r+', json.load with its except, current_data.append
\* (AttributeError on a value that is no list leaves the call)
Read(i) ==
    /\ writer[i].pc = "open"
    /\ LET loaded == json_load(ledger_file.content)
       IN writer' =
             IF loaded.kind = "object"
             THEN [writer EXCEPT ![i].pc = "idle", ![i].record = NoRecord]
             ELSE [writer EXCEPT
                     ![i].pc = "write",
                     ![i].current = Append(CurrentData(loaded), writer[i].record)]
    /\ UNCHANGED <<callerVars, ledger_file, appended, builds, overlap,
                   allowed_currencies,
                   patchVars, detVars>>

\* lines 112-113: f.seek(0); json.dump(current_data, f, indent=2); the call
\* returns
Write(i) ==
    /\ writer[i].pc = "write"
    /\ ledger_file' = [exists |-> TRUE,
                       content |-> Overwrite(ledger_file.content,
                                             json_dump(writer[i].current))]
    /\ appended' = Append(appended, writer[i].record)
    /\ writer' = [writer EXCEPT ![i].pc = "idle", ![i].record = NoRecord,
                      ![i].current = <<>>, ![i].returned = @ + 1]
    /\ UNCHANGED <<callerVars, builds, overlap, allowed_currencies,
                   patchVars, detVars>>

NextConc == \E i \in Writers :
                Call(i) \/ CheckExists(i) \/ Create(i) \/ Read(i) \/ Write(i)

SpecConc == Init /\ [][NextConc]_vars

----------------------------------------------------------------------------
(* Properties *)

\* no file, a file of zero bytes, or the empty array the program itself writes
CleanStart == store0 \in {"missing", "empty", "array"}
Entries == ReadAll(ledger_file)
FromThisBuild(l) == {i \in DOMAIN l : l[i].timestamp = builds}

\* C1: starting from a missing or empty store, after any number of appends
\* that returned normally the store reads back exactly the appended records,
\* in the order they were appended, each with the content it was appended with.
C1_AppendOnly ==
    CleanStart =>
        /\ Entries = appended
        /\ (appended # <<>> => Readable(ledger_file))

C1_Witness ==
    /\ CleanStart
    /\ Len(appended) >= 2
    /\ appended[1].data # appended[2].data
    /\ Entries = appended

\* C2 (as stated): a build that ends in validation failure has appended a
\* ledger entry with status FAILED carrying the violations.
C2_FailedEntryAppended ==
    pc = "rejected" =>
        \E i \in DOMAIN Entries :
            Entries[i].status = "FAILED" /\ Entries[i].timestamp = builds

\* C2 (amended): a build that ends in validation failure returns the error to
\* the caller as exit code 1 and leaves no entry of its own in the ledger;
\* every ledger entry has status VALIDATED.
C2_NoFailedEntry ==
    pc = "rejected" =>
        /\ exit_code = 1
        /\ violations # <<>>
        /\ FromThisBuild(Entries) = {}
        /\ \A i \in DOMAIN Entries : Entries[i].status = "VALIDATED"

C2_Witness ==
    /\ pc = "rejected" /\ n_validate = 2
    /\ CleanStart /\ Len(Entries) >= 1
    /\ raw_data = NoIssuerInput

\* C3: a build that ends in validation failure leaves the ledger store and
\* the output file as they were when the build started.
C3_RejectionWritesNothing ==
    pc = "rejected" =>
        /\ ledger_file = ledger_before
        /\ output_file = NoFile

C3_Witness ==
    /\ pc = "rejected" /\ output /\ n_validate = 1
    /\ ledger_file.exists /\ Len(Entries) >= 1
    /\ ledger_file = ledger_before

SchemaOk(d) ==
    /\ IsStr(d["asset_id"]) /\ Len(d["asset_id"].s) >= MinIdLen
    /\ \A i \in DOMAIN d["asset_id"].s : d["asset_id"].s[i] \notin LowerChars
    /\ \E i \in DOMAIN d["asset_id"].s : d["asset_id"].s[i] \in UpperChars
    /\ IsStr(d["asset_type"]) /\ d["asset_type"].s \in AssetTypes
    /\ IsStr(d["issuer_name"]) /\ Len(d["issuer_name"].s) >= MinIssuerLen
    /\ IsNum(d["price"]) /\ d["price"].m > 0
    /\ IsStr(d["currency"]) /\ Len(d["currency"].s) = CurrencyLen

\* C4: an entry is appended only by an invocation whose validation succeeded;
\* its record satisfies every schema constraint, its trace_id is
\* generate_trace_id of that record, and a successful invocation appends
\* exactly one entry.
C4_CertifiedEntries ==
    /\ \A i \in DOMAIN appended :
          /\ SchemaOk(appended[i].data)
          /\ appended[i].trace_id = generate_trace_id(appended[i].data)
          /\ appended[i].status = "VALIDATED"
    /\ \A i, j \in DOMAIN appended :
          appended[i].timestamp = appended[j].timestamp => i = j
    /\ (pc = "certified" =>
          /\ valid_asset.ok
          /\ FromThisBuild(appended) = {Len(appended)}
          /\ appended[Len(appended)].data = valid_asset.dump)
    /\ (pc \notin {"certified", "idle"} => FromThisBuild(appended) = {})

C4_Witness ==
    /\ pc = "certified" /\ n_patch = 1
    /\ raw_data = PatchableInput
    /\ Len(appended) = 2
    /\ appended[2].data["asset_id"] = S_ABCDE
    /\ appended[2].data["price"] = Num(5000000, 0)

\* C5: an invocation validates at most twice and runs PatchEngine.run at most
\* once; once the second validation has been made the invocation is certified
\* (its validation succeeded) or rejected, and nothing is retried.
C5_OneCycle ==
    /\ n_validate <= 2
    /\ n_patch <= 1
    /\ (n_validate = 2 =>
          /\ n_patch = 1
          /\ pc \in {"certifying", "certified", "rejected", "crashed"}
          /\ (pc = "rejected" \/ valid_asset.ok))

C5_Witness ==
    /\ n_validate = 2 /\ n_patch = 1 /\ pc = "rejected"
    /\ raw_data = ManyErrorsInput

\* C6: PatchEngine runs only when --fix was given and the first validation
\* failed; without --fix it never runs and the data validated is the raw
\* input, and with --fix and a first pass that succeeds it never runs either.
C6_PatchOnlyOnFailureWithFix ==
    /\ ((pc \in {"patching", "revalidating"} \/ n_patch > 0) =>
          /\ fix
          /\ n_validate >= 1
          /\ ~FinancialAsset(raw_data).ok
          /\ reported = FinancialAsset(raw_data).errors)
    /\ (~fix => n_patch = 0 /\ patched_data = NotRun /\ n_validate <= 1)
    /\ (n_patch = 0 /\ valid_asset.ok => valid_asset = FinancialAsset(raw_data))
    /\ (n_validate >= 1 /\ FinancialAsset(raw_data).ok =>
          n_patch = 0 /\ pc \notin {"patching", "revalidating"})

C6_Witness ==
    /\ fix /\ pc = "certified" /\ n_patch = 0 /\ n_validate = 1
    /\ patched_data = NotRun

\* C7: PatchEngine.run applied to the result of PatchEngine.run gives that
\* result again, for every raw mapping (an exception of the first run is the
\* outcome of the second as well).
C7_PatchIdempotent ==
    \A i \in DOMAIN pr : pr[i] = pr[1]

C7_Witness ==
    /\ Len(pr) = 2 /\ pr[1].ok /\ pr[2] = pr[1]
    /\ pr[1].data["asset_id"] # px["asset_id"]
    /\ pr[1].data["price"] # px["price"]
    /\ pr[1].data["maturity_date"] # px["maturity_date"]

\* C8 (as stated): PatchEngine.run never raises, whatever the raw mapping.
C8_PatchNeverRaises ==
    \A i \in DOMAIN pr : pr[i].ok

\* C9 (as stated): when an invocation ends rejected, the violations of the
\* validation pass that caused the rejection are the ones reported.
C9_ViolationsReported ==
    pc = "rejected" => reported = violations

GbpCertifiedBefore ==
    \E i \in DOMAIN appended :
        /\ appended[i].timestamp < builds
        /\ appended[i].data = model_dump(GbpInput)

Replayed ==
    /\ raw_data = GbpInput
    /\ allowed_currencies = NarrowPolicy
    /\ GbpCertifiedBefore
    /\ pc \in Terminal

C12_AppendNeverAborts ==
    ~(pc = "crashed" /\ valid_asset.ok)

\* C16 (as stated): whenever append_to_ledger has returned normally, whatever
\* the store held before, the store parses as a JSON array whose last element
\* is the appended record.
C16_StoreWellFormedAfterAppend ==
    pc = "certified" =>
        /\ Readable(ledger_file)
        /\ Len(Entries) >= 1
        /\ Entries[Len(Entries)] = appended[Len(appended)]

\* C17 (as stated): the method of a certified record is AUTO_PATCHED exactly
\* when PatchEngine.run was executed in that invocation, and DIRECT exactly
\* when the raw input validated on the first pass.
C17_MethodReflectsPatching ==
    pc = "certified" =>
        /\ (appended[Len(appended)].method = "AUTO_PATCHED" <=> n_patch = 1)
        /\ (appended[Len(appended)].method = "DIRECT" <=> n_patch = 0)

ScenarioARun == raw_data = ScenarioAInput /\ fix

\* C13 (as stated): with auto-patch, Scenario A's input is patched to currency
\* "USD", face_value 5000000.0 and maturity_date "2030-01-01T00:00:00",
\* validates on the second pass and ends CERTIFIED with a trace identifier.
C13_ScenarioACertified ==
    ScenarioARun /\ pc \in Terminal =>
        /\ pc = "certified"
        /\ patched_data.ok
        /\ patched_data.data["currency"] = USD
        /\ patched_data.data["face_value"] = Num(5000000, 0)
        /\ patched_data.data["maturity_date"] = S_iso_date
        /\ appended[Len(appended)].trace_id = generate_trace_id(valid_asset.dump)

\* C13 (amended): with auto-patch, Scenario A's input is patched to face_value
\* 5000000.0 and maturity_date "2030-01-01T00:00:00" while currency stays
\* "usd "; the second validation fails (asset_id, asset_type, issuer_name and
\* price are missing, currency is too long) and the invocation ends REJECTED
\* with exit code 1, no trace identifier and no ledger entry.
C13_ScenarioARejected ==
    ScenarioARun =>
        /\ (pc \in Terminal => pc = "rejected" /\ exit_code = 1)
        /\ ~valid_asset.ok
        /\ ledger_file = ledger_before
        /\ (n_patch = 1 =>
              /\ patched_data.ok
              /\ patched_data.data["face_value"] = Num(5000000, 0)
              /\ patched_data.data["maturity_date"] = S_iso_date
              /\ patched_data.data["currency"] = S_usd_sp
              /\ \A key \in Keys \ {"face_value", "maturity_date"} :
                    patched_data.data[key] = raw_data[key])
        /\ (n_validate = 2 =>
              violations = Err("asset_id", "missing") \o Err("asset_type", "missing")
                           \o Err("issuer_name", "missing") \o Err("price", "missing")
                           \o Err("currency", "string_too_long"))

C13_Witness ==
    /\ ScenarioARun /\ pc = "rejected"
    /\ n_patch = 1 /\ n_validate = 2
    /\ patched_data.data["face_value"] = Num(5000000, 0)

\* what the magnitude-suffix rule asks of one value: digits[.digits] and exactly
\* one suffix character become the number, anything else stays as it is
SuffixForm(val) ==
    /\ IsStr(val) /\ Len(val.s) >= 2
    /\ Last(val.s) \in {"k", "K", "m", "M"}
    /\ IsDecimal(Front(val.s))

Normalized(val) ==
    IF SuffixForm(val)
    THEN Times(DecimalValue(Front(val.s)),
               IF Last(val.s) \in {"k", "K"} THEN 1000 ELSE 1000000)
    ELSE val

\* C14 (as stated): fix_numbers replaces every value of the form
\* digits[.digits] + one of k, K, m, M by the numeric part times 1,000 (k, K)
\* or 1,000,000 (m, M) and leaves every other value unchanged.
C14_MagnitudeNormalization ==
    ph.which = "fix_numbers" =>
        ph.result = Returned([key \in Keys |-> Normalized(px[key])])

\* C18 (as stated): whenever asset_id is a string, after fix_uppercase it
\* passes the schema's uppercase check.
C18_CasingRepairEffective ==
    ph.which = "fix_uppercase" /\ IsStr(px["asset_id"]) =>
        enforce_uppercase(ph.result.data["asset_id"].s)

\* C15: appends that do not overlap keep the store equal to the appended
\* records (clean start), while two interleaved appends reach a state in which
\* both have returned normally and the store lacks an appended record.
C15_SerializedAppendsKeepAll ==
    CleanStart /\ ~overlap =>
        /\ Entries = appended
        /\ (appended # <<>> => Readable(ledger_file))

C15_Witness ==
    /\ CleanStart /\ overlap
    /\ \A i \in Writers : writer[i].pc = "idle" /\ writer[i].returned >= 1
    /\ \E k \in DOMAIN appended :
          \A m \in DOMAIN Entries : Entries[m] # appended[k]

SameRun ==
    /\ reference # NoReference /\ pc \in Terminal
    /\ dict_of(input_items) = dict_of(reference.items)
    /\ fix = reference.fix

\* C11: two invocations given the same key-value pairs (in any key order) and
\* the same patch flag end in the same outcome with the same trace identifier;
\* ledger entries with equal data carry equal trace identifiers whatever their
\* timestamp, method and the store's earlier content; and patching the pairs in
\* the file's order gives what patching the mapping gives.
C11_Deterministic ==
    /\ SameRun => pc = reference.pc /\ TraceOf = reference.trace
    /\ \A i, j \in DOMAIN appended :
          appended[i].data = appended[j].data =>
              appended[i].trace_id = appended[j].trace_id
    /\ (n_patch = 1 /\ pc # "idle" => patched_data = run_items(input_items))

C11_Witness ==
    /\ SameRun /\ pc = "certified" /\ reference.pc = "certified"
    /\ input_items # reference.items
    /\ n_patch = 1
    /\ Len(appended) >= 2
    /\ appended[Len(appended)].timestamp # appended[1].timestamp

====
